---- MODULE Spec2Model ----
(***************************************************************************)
(* User registration and JWT login backend (NestJS + Prisma + bcrypt).     *)
(* The store is the Prisma `user` table, the operations are the methods of *)
(* UserService and the controllers in front of them.  Strings are          *)
(* sequences of one-character strings, so that trimming, lower-casing,     *)
(* length checks and regular expressions are computed, not assumed.        *)
(***************************************************************************)
EXTENDS Integers, Sequences, FiniteSets, TLC

(* ------------------------------ bounds -------------------------------- *)
\* concurrent register requests in flight
NumProcs == 2
\* rows the user table may hold
MaxUsers == 2
\* clock ticks
MaxTime == 2
\* distinct salts bcrypt may draw
NumSalts == 1

Procs == 1..NumProcs
Salts == 1..NumSalts

(* ------------------------------ strings ------------------------------- *)
UpperLetters == <<"A","B","C","D","E","F","G","H","I","J","K","L","M",
                  "N","O","P","Q","R","S","T","U","V","W","X","Y","Z">>
LowerLetters == <<"a","b","c","d","e","f","g","h","i","j","k","l","m",
                  "n","o","p","q","r","s","t","u","v","w","x","y","z">>
Digits == {"0","1","2","3","4","5","6","7","8","9"}
Whitespace == {" ", "\t", "\n"}

UpperSet == {UpperLetters[i] : i \in DOMAIN UpperLetters}
LowerSet == {LowerLetters[i] : i \in DOMAIN LowerLetters}
IsUpper(c) == c \in UpperSet
IsLower(c) == c \in LowerSet
IsAlpha(c) == IsUpper(c) \/ IsLower(c)

LowerChar(c) ==
  IF IsUpper(c)
    THEN LowerLetters[CHOOSE i \in DOMAIN UpperLetters : UpperLetters[i] = c]
    ELSE c

\* String.prototype.toLowerCase
ToLowerCase(s) == [i \in DOMAIN s |-> LowerChar(s[i])]

RECURSIVE TrimStart(_)
TrimStart(s) ==
  IF s # <<>> /\ Head(s) \in Whitespace THEN TrimStart(Tail(s)) ELSE s

RECURSIVE TrimEnd(_)
TrimEnd(s) ==
  IF s # <<>> /\ s[Len(s)] \in Whitespace
    THEN TrimEnd(SubSeq(s, 1, Len(s) - 1))
    ELSE s

\* String.prototype.trim
Trim(s) == TrimEnd(TrimStart(s))

Take(s, n) == IF Len(s) <= n THEN s ELSE SubSeq(s, 1, n)

\* a string of n copies of c
Rep(c, n) == [i \in 1..n |-> c]

(* --------------------------- request values --------------------------- *)
\* A JSON value of a request body: a string, a number, or an absent field.
\* Num is an integer; Real(n, f) is the non-integer n.f, f being its
\* fraction digits without trailing zeros.
Str(s) == [k |-> "str", s |-> s, n |-> 0]
Num(n) == [k |-> "num", s |-> <<>>, n |-> n]
Real(n, f) == [k |-> "real", s |-> f, n |-> n]
NaN == [k |-> "nan", s |-> <<>>, n |-> 0]
Undefined == [k |-> "none", s |-> <<>>, n |-> 0]

IsStr(v) == v.k = "str"
\* IsNotEmpty: value !== '' && value !== null && value !== undefined
IsNotEmpty(v) == v.k # "none" /\ ~(v.k = "str" /\ v.s = <<>>)
MinLength(v, n) == IsStr(v) /\ Len(v.s) >= n
MaxLength(v, n) == IsStr(v) /\ Len(v.s) <= n
\* @IsNumber(): any number that is not NaN
IsNumber(v) == v.k \in {"num", "real"}

\* typeof value === 'number' && Number.isInteger(value)
IsInt(v) == v.k = "num"
\* typeof value === 'number' && value >= n
Min(v, n) == v.k \in {"num", "real"} /\ v.n >= n
\* typeof value === 'number' && value <= n
Max(v, n) == (v.k = "num" /\ v.n <= n) \/ (v.k = "real" /\ v.n < n)

DigitValue(c) ==
  CASE c = "0" -> 0 [] c = "1" -> 1 [] c = "2" -> 2 [] c = "3" -> 3
    [] c = "4" -> 4 [] c = "5" -> 5 [] c = "6" -> 6 [] c = "7" -> 7
    [] c = "8" -> 8 [] OTHER -> 9

RECURSIVE DecimalValue(_)
DecimalValue(s) ==
  IF s = <<>> THEN 0
  ELSE 10 * DecimalValue(SubSeq(s, 1, Len(s) - 1)) + DigitValue(s[Len(s)])

DigitChars == <<"0","1","2","3","4","5","6","7","8","9">>
RECURSIVE DecimalString(_)
DecimalString(n) ==
  IF n < 10 THEN <<DigitChars[n + 1]>>
  ELSE DecimalString(n \div 10) \o <<DigitChars[(n % 10) + 1]>>

\* enableImplicitConversion on a property declared `string`: String(value)
ImplicitString(v) ==
  CASE v.k = "num" ->
         Str(IF v.n < 0 THEN <<"-">> \o DecimalString(-v.n)
                        ELSE DecimalString(v.n))
    [] v.k = "real" -> Str(DecimalString(v.n) \o <<".">> \o v.s)
    [] v.k = "nan" -> Str(<<"N", "a", "N">>)
    [] OTHER -> v

IsDigits(s) == \A i \in DOMAIN s : s[i] \in Digits

RECURSIVE DropTrailingZeros(_)
DropTrailingZeros(s) ==
  IF s # <<>> /\ s[Len(s)] = "0"
    THEN DropTrailingZeros(SubSeq(s, 1, Len(s) - 1))
    ELSE s

\* Number(text) for an unsigned decimal literal, "" (0) and any text that
\* is no number (NaN); signs, exponents and 0x literals are not modelled
NumberOfString(text) ==
  LET t == Trim(text)
      dots == {i \in DOMAIN t : t[i] = "."}
  IN IF IsDigits(t) THEN Num(DecimalValue(t))
     ELSE IF Cardinality(dots) = 1 /\ Len(t) > 1
       THEN LET d == CHOOSE i \in dots : TRUE
                whole == SubSeq(t, 1, d - 1)
                frac == DropTrailingZeros(SubSeq(t, d + 1, Len(t)))
            IN IF ~(IsDigits(whole) /\ IsDigits(frac)) THEN NaN
               ELSE IF frac = <<>> THEN Num(DecimalValue(whole))
               ELSE Real(DecimalValue(whole), frac)
     ELSE NaN

\* enableImplicitConversion on a property declared `number`: Number(value)
ImplicitNumber(v) == IF v.k = "str" THEN NumberOfString(v.s) ELSE v

(* ------------------------------ the DTOs ------------------------------ *)
MsgNameString == "name must be a string"
MsgNameRequired == "Le nom est obligatoire"
MsgNameMin == "Le nom doit contenir au moins 2 caracteres"
MsgNameMax == "Le nom ne peut pas depasser 50 caracteres"
MsgNamePattern == "Le nom ne peut contenir que des lettres, espaces, tirets et apostrophes"
MsgEmailInvalid == "Veuillez fournir une adresse email valide"
MsgEmailRequired == "L'email est obligatoire"
MsgPasswordString == "password must be a string"
MsgPasswordRequired == "Le mot de passe est obligatoire"
MsgPasswordMin == "Le mot de passe doit contenir au moins 8 caracteres"
MsgPasswordMax == "Le mot de passe ne peut pas depasser 128 caracteres"
MsgPasswordPattern == "Le mot de passe doit contenir au moins une lettre minuscule, une lettre majuscule, un chiffre et un caractere special (@$!%*?&)"
MsgAgeInt == "L'age doit etre un nombre entier"
MsgAgeMin == "L'age minimum est de 13 ans"
MsgAgeMax == "L'age maximum est de 120 ans"
MsgAgeRequired == "L'age est obligatoire"
MsgNotWhitelisted == "property extraProperty should not exist"

\* a name property without the transform
NameTransformOff(v) == v

\* @Transform(({ value }) => value?.trim())
NameTransform(v) == IF IsStr(v) THEN Str(Trim(v.s)) ELSE v

\* the transform without toLowerCase
EmailTransformNoLower(v) == IF IsStr(v) THEN Str(Trim(v.s)) ELSE v

\* @Transform(({ value }) => value?.toLowerCase().trim())
EmailTransform(v) == IF IsStr(v) THEN Str(Trim(ToLowerCase(v.s))) ELSE v

\* /^[a-zA-ZA-y\s'-]+$/ : letters, white space, apostrophe, hyphen
NameChar(c) == IsAlpha(c) \/ c \in Whitespace \/ c \in {"'", "-"}
NamePattern(v) ==
  IsStr(v) /\ v.s # <<>> /\ \A i \in DOMAIN v.s : NameChar(v.s[i])

PasswordSymbols == {"@", "$", "!", "%", "*", "?", "&"}
PasswordFirstChar(c) == IsAlpha(c) \/ c \in Digits \/ c \in PasswordSymbols
\* /^(?=.*[a-z])(?=.*[A-Z])(?=.*\d)(?=.*[@$!%*?&])[A-Za-z\d@$!%*?&]/
PasswordPattern(v) ==
  /\ IsStr(v)
  /\ \E i \in DOMAIN v.s : IsLower(v.s[i])
  /\ \E i \in DOMAIN v.s : IsUpper(v.s[i])
  /\ \E i \in DOMAIN v.s : v.s[i] \in Digits
  /\ \E i \in DOMAIN v.s : v.s[i] \in PasswordSymbols
  /\ v.s # <<>> /\ PasswordFirstChar(v.s[1])

\* IsEmail (validator.js, default options): one local part, an "@", and a
\* fully qualified domain whose last label is alphabetic and of 2+ letters
LocalChar(c) == IsAlpha(c) \/ c \in Digits \/ c \in {".", "+", "-", "_"}
DomainChar(c) == IsAlpha(c) \/ c \in Digits \/ c = "-"
AtPositions(s) == {i \in DOMAIN s : s[i] = "@"}
DotPositions(s) == {i \in DOMAIN s : s[i] = "."}
IsFQDN(d) ==
  /\ d # <<>>
  /\ DotPositions(d) # {}
  /\ \A i \in DOMAIN d : DomainChar(d[i]) \/ d[i] = "."
  /\ d[1] # "." /\ d[Len(d)] # "."
  /\ \A i \in DotPositions(d) : (i + 1) \notin DotPositions(d)
  /\ LET last == CHOOSE i \in DotPositions(d) :
                   \A j \in DotPositions(d) : j <= i
     IN /\ Len(d) - last >= 2
        /\ \A i \in (last + 1)..Len(d) : IsAlpha(d[i])
IsEmail(v) ==
  /\ IsStr(v)
  /\ Cardinality(AtPositions(v.s)) = 1
  /\ LET at == CHOOSE i \in AtPositions(v.s) : TRUE
         local == SubSeq(v.s, 1, at - 1)
         domain == SubSeq(v.s, at + 1, Len(v.s))
     IN /\ local # <<>>
        /\ \A i \in DOMAIN local : LocalChar(local[i])
        /\ local[1] # "." /\ local[Len(local)] # "."
        /\ IsFQDN(domain)

\* one message when the check fails
Check(ok, msg) == IF ok THEN <<>> ELSE <<msg>>

\* plainToInstance(CreateUserDto, body): implicit conversion, then @Transform
CreateUserDtoTransform(body) ==
  [name |-> NameTransform(ImplicitString(body.name)),
   email |-> EmailTransform(ImplicitString(body.email)),
   password |-> ImplicitString(body.password),
   age |-> ImplicitNumber(body.age)]

\* class-validator on CreateUserDto: the decorators of a property run from
\* the one nearest the property upwards, properties in declaration order
CreateUserDtoErrors(dto) ==
     Check(NamePattern(dto.name), MsgNamePattern)
  \o Check(MaxLength(dto.name, 50), MsgNameMax)
  \o Check(MinLength(dto.name, 2), MsgNameMin)
  \o Check(IsNotEmpty(dto.name), MsgNameRequired)
  \o Check(IsStr(dto.name), MsgNameString)
  \o Check(IsNotEmpty(dto.email), MsgEmailRequired)
  \o Check(IsEmail(dto.email), MsgEmailInvalid)
  \o Check(PasswordPattern(dto.password), MsgPasswordPattern)
  \o Check(MaxLength(dto.password, 128), MsgPasswordMax)
  \o Check(MinLength(dto.password, 8), MsgPasswordMin)
  \o Check(IsNotEmpty(dto.password), MsgPasswordRequired)
  \o Check(IsStr(dto.password), MsgPasswordString)
  \o Check(IsNotEmpty(dto.age), MsgAgeRequired)
  \o Check(Max(dto.age, 120), MsgAgeMax)
  \o Check(Min(dto.age, 13), MsgAgeMin)
  \o Check(IsInt(dto.age), MsgAgeInt)

\* plainToInstance(LoginDto, body)
LoginDtoTransform(body) ==
  [email |-> EmailTransform(ImplicitString(body.email)),
   password |-> ImplicitString(body.password)]

\* a LoginDto whose password has the decorators of CreateUserDto.password
LoginDtoErrorsAsRegister(dto) ==
     Check(IsNotEmpty(dto.email), MsgEmailRequired)
  \o Check(IsEmail(dto.email), MsgEmailInvalid)
  \o Check(PasswordPattern(dto.password), MsgPasswordPattern)
  \o Check(MaxLength(dto.password, 128), MsgPasswordMax)
  \o Check(MinLength(dto.password, 8), MsgPasswordMin)
  \o Check(IsNotEmpty(dto.password), MsgPasswordRequired)
  \o Check(IsStr(dto.password), MsgPasswordString)

\* class-validator on LoginDto
LoginDtoErrors(dto) ==
     Check(IsNotEmpty(dto.email), MsgEmailRequired)
  \o Check(IsEmail(dto.email), MsgEmailInvalid)
  \o Check(IsNotEmpty(dto.password), MsgPasswordRequired)
  \o Check(IsStr(dto.password), MsgPasswordString)

\* ValidationPipe({whitelist, forbidNonWhitelisted, transform}): a property
\* the DTO does not declare is an error of its own
PipeErrors(body, errors) ==
  Check(~body.extra, MsgNotWhitelisted) \o errors

(* ---------------------------- bcrypt, JWT ----------------------------- *)
\* const saltRounds = 10
SaltRounds == 10
\* bcrypt reads only the first 72 bytes of the password
BcryptMaxBytes == 72

\* A value of the `password` column: a bcrypt digest "$2b$<rounds>$<salt><key>"
\* or any other text.
PlainText(p) == [alg |-> "", rounds |-> 0, salt |-> 0, key |-> p]
NoHash == PlainText(<<>>)

\* bcrypt.hash(password, saltRounds), with the salt it drew
BcryptHash(p, rounds, salt) ==
  [alg |-> "2b", rounds |-> rounds, salt |-> salt, key |-> Take(p, BcryptMaxBytes)]

\* bcrypt.compare(password, stored): false for a text that is no digest
BcryptCompare(p, stored) ==
  stored.alg = "2b" /\ BcryptHash(p, stored.rounds, stored.salt) = stored

\* lifetime of a token, in clock ticks
TokenTTL == 1
Secret == "secret"
NoToken == [sub |-> 0, email |-> <<>>, iat |-> 0, exp |-> 0, sig |-> "none"]

(* ------------------------------- state -------------------------------- *)
VARIABLES
  users,      \* the rows of the user table, in insertion order
  reg,        \* the register call each request slot is running
  now,        \* the clock
  last,       \* the latest response sent, with the request it answers
  submitted   \* history: the password each row was created with

vars == <<users, reg, now, last, submitted>>

\* jwtService.sign(payload)
JwtSign(payload) ==
  [sub |-> payload.sub, email |-> payload.email,
   iat |-> now, exp |-> now + TokenTTL, sig |-> Secret]

(* ---------------------------- the user table -------------------------- *)
PublicFields == {"id", "name", "email", "age"}

\* a query without the select: the whole row
SelectAll(row) == row

\* select: { id: true, name: true, email: true, age: true }
SelectPublic(row) == [f \in PublicFields |-> row[f]]

NoUser == [id |-> 0, name |-> <<>>, email |-> <<>>, age |-> 0]

Rows == {users[i] : i \in DOMAIN users}

\* prisma.user.findUnique({ where: { email } })
FindByEmail(email) == {u \in Rows : u.email = email}

\* prisma.user.findUnique({ where: { id } })
FindById(id) == {u \in Rows : u.id = id}

\* a table without the unique constraint
UniqueViolationOff(email) == FALSE

\* an insert that is rejected whenever the table holds any row
UniqueViolationAnyRow(email) == Rows # {}

\* email String @unique
UniqueViolation(email) == \E u \in Rows : u.email = email

\* id String @id @default(cuid())
NewId == Len(users) + 1

(* ------------------------------ requests ------------------------------ *)
EmailA == <<"a", "@", "x", ".", "i", "o">>
EmailAVariant == <<" ", "A", "@", "X", ".", "i", "o", " ">>
EmailB == <<"b", "@", "x", ".", "i", "o">>
EmailBad == <<"a", "@", "x">>
NameOk == <<" ", "A", "l">>
NameShort == <<"J">>
PwA == <<"A", "a", "1", "!", "a", "a", "a", "a">>
PwWeak == <<"w", "r", "o", "n", "g">>
\* two passwords of 73 characters that differ in the last one only
PwLongX == <<"A", "a", "1", "!">> \o Rep("z", 68) \o <<"x">>
PwLongY == <<"A", "a", "1", "!">> \o Rep("z", 68) \o <<"y">>

RegisterBody(name, email, password, age) ==
  [name |-> name, email |-> email, password |-> password, age |-> age,
   extra |-> FALSE]

\* the bodies POST /users/register is called with
RegisterBodies ==
  {RegisterBody(Str(NameOk), Str(EmailA), Str(PwA), Num(13)),
   RegisterBody(Str(NameOk), Str(EmailAVariant), Str(PwLongX), Num(120)),
   RegisterBody(Str(NameOk), Str(EmailB), Str(PwA), Num(13)),
   RegisterBody(Str(NameShort), Str(EmailA), Str(PwA), Num(13)),
   RegisterBody(Str(NameShort), Str(EmailBad), Str(PwWeak), Num(121)),
   [RegisterBody(Str(NameOk), Str(EmailB), Str(PwA), Num(13))
      EXCEPT !.extra = TRUE]}

\* passwords at and around each rule of CreateUserDto.password
PwShort == <<"A", "a", "1", "!", "a", "a", "a">>
PwMax == <<"A", "a", "1", "!">> \o Rep("z", 124)
PwOver == <<"A", "a", "1", "!">> \o Rep("z", 125)
PwNoLower == <<"A", "A", "1", "!", "A", "A", "A", "A">>
PwNoUpper == <<"a", "a", "1", "!", "a", "a", "a", "a">>
PwNoDigit == <<"A", "a", "b", "!", "a", "a", "a", "a">>
PwNoSymbol == <<"A", "a", "1", "a", "a", "a", "a", "a">>
\* the four classes and the length, and a character outside
\* [A-Za-z\d@$!%*?&] in the first place, or in a later one
PwOtherFirst == <<"#", "A", "a", "1", "!", "a", "a", "a">>
PwOtherInside == <<"A", "a", "1", "!", "#", " ", "a", "a">>

NameBlank == <<" ", " ">>
NameDigit == <<"A", "1">>

NameInputs ==
  {Str(NameOk), Str(NameShort), Str(NameBlank), Str(NameDigit), Undefined}
EmailInputs == {Str(EmailA), Str(EmailB), Str(EmailBad), Undefined}
PasswordInputs ==
  {Str(PwA), Str(PwShort), Str(PwMax), Str(PwOver), Str(PwNoLower),
   Str(PwNoUpper), Str(PwNoDigit), Str(PwNoSymbol), Str(PwOtherFirst),
   Str(PwOtherInside), Str(PwWeak), Num(12345678), Undefined}
AgeInputs ==
  {Num(12), Num(13), Num(120), Num(121), Real(25, <<"5">>),
   Str(<<"2", "5">>), Str(<<"1", "2">>), Str(<<"1", "2", "1">>),
   Str(<<"2", "5", ".", "5">>), Str(<<"2", "5", ".", "0">>),
   Str(<<"a", "b", "c">>), Str(<<>>), Undefined}

\* bodies that differ from a valid one in one field, bodies with several
\* invalid fields, and bodies with a property CreateUserDto does not declare
ValidationBodies ==
  {RegisterBody(n, Str(EmailA), Str(PwA), Num(13)) : n \in NameInputs}
  \cup {RegisterBody(Str(NameOk), e, Str(PwA), Num(13)) : e \in EmailInputs}
  \cup {RegisterBody(Str(NameOk), Str(EmailA), p, Num(13)) :
          p \in PasswordInputs}
  \cup {RegisterBody(Str(NameOk), Str(EmailA), Str(PwA), a) : a \in AgeInputs}
  \cup {RegisterBody(n, e, p, a) :
          n \in {Str(NameOk), Undefined},
          e \in {Str(EmailA), Str(EmailBad)},
          p \in {Str(PwA), Str(PwWeak), Undefined},
          a \in {Num(13), Num(121), Str(<<"a", "b", "c">>), Undefined}}
  \cup {[RegisterBody(Str(NameOk), Str(EmailA), Str(PwA), Num(13))
           EXCEPT !.extra = TRUE],
        [RegisterBody(Str(NameShort), Str(EmailA), Str(PwA), Num(13))
           EXCEPT !.extra = TRUE]}

\* the bodies POST /auth/login is called with
LoginBody(email, password) ==
  [email |-> email, password |-> password, extra |-> FALSE]

LoginBodies ==
  {LoginBody(Str(EmailA), Str(PwA)),
   LoginBody(Str(EmailAVariant), Str(PwA)),
   LoginBody(Str(EmailA), Str(PwWeak)),
   LoginBody(Str(EmailA), Str(PwLongX)),
   LoginBody(Str(EmailA), Str(PwLongY)),
   LoginBody(Str(EmailB), Str(PwA)),
   LoginBody(Str(EmailBad), Str(PwA)),
   LoginBody(Str(EmailA), Str(<<>>)),
   [LoginBody(Str(EmailA), Str(PwA)) EXCEPT !.extra = TRUE]}

LoginValidationBodies ==
  {LoginBody(e, p) :
     e \in {Str(EmailA), Str(EmailAVariant), Str(EmailBad), Undefined},
     p \in {Str(PwA), Str(PwWeak), Str(PwShort), Str(PwOtherFirst),
            Str(<<"a">>), Str(<<>>), Num(12345678), Undefined}}
  \cup {[LoginBody(Str(EmailA), Str(PwA)) EXCEPT !.extra = TRUE]}

\* the ids GET /users/:id is called with
IdInputs == 0..(MaxUsers + 1)

(* ------------------------------ responses ----------------------------- *)
\* Nest's body of an HttpException
ErrorBody(message, error, status) ==
  [message |-> message, error |-> error, statusCode |-> status]

\* A response, with the request it answers.  uid, raced and user are
\* history: the id of the row that had the request's normalized email when
\* the call began (0: none), whether the insert hit the unique constraint,
\* and the row the call created.
Response(op, req, status, kind, body, uid, raced, user) ==
  [op |-> op, req |-> req, status |-> status, kind |-> kind, body |-> body,
   uid |-> uid, raced |-> raced, user |-> user]

NoResponse == Response("none", 0, 0, "none", <<>>, 0, FALSE, NoUser)

\* the email of a request as the specification normalizes it
NormalizedEmail(s) == Trim(ToLowerCase(s))

\* the id of the row whose normalized email is that of the request, 0 if none
KnownId(email) ==
  IF email.k = "str" /\ \E u \in Rows :
       NormalizedEmail(u.email) = NormalizedEmail(email.s)
    THEN (CHOOSE u \in Rows :
            NormalizedEmail(u.email) = NormalizedEmail(email.s)).id
    ELSE 0

(* ------------------------- UserService.register ----------------------- *)
Idle ==
  [pc |-> "idle", body |-> 0, dto |-> 0, uid |-> 0, hashed |-> NoHash,
   user |-> NoUser]

InFlight == {p \in Procs : reg[p].pc # "idle"}

Finish(p, status, kind, body, raced) ==
  /\ last' = Response("register", reg[p].body, status, kind, body,
                      reg[p].uid, raced, reg[p].user)
  /\ reg' = [reg EXCEPT ![p] = Idle]

\* the ValidationPipe on each body of POST /users/register
RegisterPipe ==
  [body \in RegisterBodies \cup ValidationBodies |->
     [dto |-> CreateUserDtoTransform(body),
      errors |-> PipeErrors(body,
                            CreateUserDtoErrors(CreateUserDtoTransform(body)))]]

\* POST /users/register: the ValidationPipe, then the call of register
RegisterCall(p, body) ==
  /\ reg[p].pc = "idle"
  /\ Len(users) + Cardinality(InFlight) < MaxUsers
  /\ LET dto == RegisterPipe[body].dto
         errors == RegisterPipe[body].errors
     IN IF errors # <<>>
          THEN /\ last' = Response("register", body, 400, "error",
                                   ErrorBody(errors, "Bad Request", 400),
                                   KnownId(body.email), FALSE, NoUser)
               /\ UNCHANGED reg
          ELSE /\ reg' = [reg EXCEPT ![p] =
                            [pc |-> "lookup", body |-> body,
                             dto |-> [name |-> dto.name.s,
                                      email |-> dto.email.s,
                                      password |-> dto.password.s,
                                      age |-> dto.age.n],
                             uid |-> KnownId(body.email),
                             hashed |-> NoHash, user |-> NoUser]]
               /\ UNCHANGED last
  /\ UNCHANGED <<users, now, submitted>>

\* a register that goes on to the hash whatever findUnique returned
RegisterLookupUnchecked(p) ==
  /\ reg[p].pc = "lookup"
  /\ reg' = [reg EXCEPT ![p].pc = "hash"]
  /\ UNCHANGED <<users, now, last, submitted>>

\* const existingUser = await findUnique({ where: { email } });
\* if (existingUser) throw new ConflictException(...)
RegisterLookup(p) ==
  /\ reg[p].pc = "lookup"
  /\ IF FindByEmail(reg[p].dto.email) # {}
       THEN Finish(p, 409, "error",
                   ErrorBody("Cet email est deja utilise", "Conflict", 409),
                   FALSE)
       ELSE /\ reg' = [reg EXCEPT ![p].pc = "hash"]
            /\ UNCHANGED last
  /\ UNCHANGED <<users, now, submitted>>

\* const hashedPassword = await bcrypt.hash(password, saltRounds)
RegisterHash(p) ==
  /\ reg[p].pc = "hash"
  /\ \E salt \in Salts :
       reg' = [reg EXCEPT ![p].pc = "create",
                          ![p].hashed =
                            BcryptHash(reg[p].dto.password, SaltRounds, salt)]
  /\ UNCHANGED <<users, now, last, submitted>>

\* data: { ...createUserDto, password: hashedPassword }
RegisterRow(p) ==
  [id |-> NewId, name |-> reg[p].dto.name, email |-> reg[p].dto.email,
   password |-> reg[p].hashed, age |-> reg[p].dto.age]

\* what reaches the client when prisma.user.create rejects: register has
\* no try/catch, so Nest answers with its internal server error
RegisterCreateFailure(p) ==
  Finish(p, 500, "error",
         ErrorBody("Internal server error", "Internal Server Error", 500),
         TRUE)

\* const user = await prisma.user.create({ data, select })
RegisterCreate(p) ==
  /\ reg[p].pc = "create"
  /\ IF UniqueViolation(reg[p].dto.email)
       THEN /\ RegisterCreateFailure(p)
            /\ UNCHANGED <<users, submitted>>
       ELSE /\ users' = Append(users, RegisterRow(p))
            /\ submitted' = Append(submitted, reg[p].dto.password)
            /\ reg' = [reg EXCEPT ![p].pc = "sign",
                                  ![p].user = SelectPublic(RegisterRow(p))]
            /\ UNCHANGED last
  /\ UNCHANGED now

\* a payload that takes a fresh id instead of the created row's
RegisterPayloadFreshId(p) == [sub |-> NewId, email |-> reg[p].user.email]

\* a payload whose email is the one the request was sent with
RegisterPayloadRequestEmail(p) ==
  [sub |-> reg[p].user.id, email |-> reg[p].body.email.s]

\* const payload = { sub: user.id, email: user.email }
RegisterPayload(p) == [sub |-> reg[p].user.id, email |-> reg[p].user.email]

\* return { access_token: this.jwtService.sign(payload) }
RegisterSign(p) ==
  /\ reg[p].pc = "sign"
  /\ Finish(p, 201, "token",
            [access_token |-> JwtSign(RegisterPayload(p))], FALSE)
  /\ UNCHANGED <<users, now, submitted>>

\* await bcrypt.hash(...) rejects: register has no try/catch, the call ends
\* with Nest's internal server error
RegisterHashFault(p) ==
  /\ reg[p].pc = "hash"
  /\ Finish(p, 500, "error",
            ErrorBody("Internal server error", "Internal Server Error", 500),
            FALSE)
  /\ UNCHANGED <<users, now, submitted>>

\* this.jwtService.sign(payload) throws: the row prisma.user.create has
\* inserted stays, nothing removes it, and the call ends with the internal
\* server error
RegisterSignFault(p) ==
  /\ reg[p].pc = "sign"
  /\ Finish(p, 500, "error",
            ErrorBody("Internal server error", "Internal Server Error", 500),
            FALSE)
  /\ UNCHANGED <<users, now, submitted>>

(* ------------------- UserService.getUsers, getUserById ---------------- *)
\* a findMany with take: 1
GetUsersResultTakeOne ==
  [i \in DOMAIN users \cap {1} |-> SelectPublic(users[i])]

\* return await prisma.user.findMany({ select })
GetUsersResult == [i \in DOMAIN users |-> SelectPublic(users[i])]

GetUsers ==
  /\ last' = Response("getUsers", 0, 200, "list", GetUsersResult,
                      0, FALSE, NoUser)
  /\ UNCHANGED <<users, reg, now, submitted>>

\* return await prisma.user.findUnique({ where: { id }, select }): the row's
\* public fields, or null, which the controller sends as it is
GetUserByIdResponse(id) ==
  IF FindById(id) # {}
    THEN [status |-> 200, kind |-> "view",
          body |-> SelectPublic(CHOOSE u \in FindById(id) : TRUE)]
    ELSE [status |-> 200, kind |-> "null", body |-> <<>>]

GetUserById(id) ==
  /\ LET r == GetUserByIdResponse(id)
     IN last' = Response("getUserById", id, r.status, r.kind, r.body,
                         0, FALSE, NoUser)
  /\ UNCHANGED <<users, reg, now, submitted>>

\* the clock advances
Tick ==
  /\ now < MaxTime
  /\ now' = now + 1
  /\ UNCHANGED <<users, reg, last, submitted>>

(* ------------------- AuthService.login, getProfile -------------------- *)
InvalidCredentials == ErrorBody("Invalid credentials", "Unauthorized", 401)

\* look the user up by email, compare the password with the stored digest,
\* sign { sub, email }
LoginResponse(dto) ==
  IF FindByEmail(dto.email) = {}
    THEN [status |-> 401, kind |-> "error", body |-> InvalidCredentials]
    ELSE LET user == CHOOSE u \in FindByEmail(dto.email) : TRUE
         IN IF ~BcryptCompare(dto.password, user.password)
              THEN [status |-> 401, kind |-> "error",
                    body |-> InvalidCredentials]
              ELSE [status |-> 200, kind |-> "token",
                    body |-> [access_token |->
                                JwtSign([sub |-> user.id,
                                         email |-> user.email])]]

\* the ValidationPipe on each body of POST /auth/login
LoginPipe ==
  [body \in LoginBodies \cup LoginValidationBodies |->
     [dto |-> LoginDtoTransform(body),
      errors |-> PipeErrors(body, LoginDtoErrors(LoginDtoTransform(body)))]]

\* POST /auth/login: the ValidationPipe on LoginDto, then login
LoginOutcome(body) ==
  LET dto == LoginPipe[body].dto
      errors == LoginPipe[body].errors
  IN IF errors # <<>>
       THEN [status |-> 400, kind |-> "error",
             body |-> ErrorBody(errors, "Bad Request", 400)]
       ELSE LoginResponse([email |-> dto.email.s, password |-> dto.password.s])

Login(body) ==
  /\ LET r == LoginOutcome(body)
     IN last' = Response("login", body, r.status, r.kind, r.body,
                         KnownId(body.email), FALSE, NoUser)
  /\ UNCHANGED <<users, reg, now, submitted>>

\* the bearer tokens GET /auth/profile is called with: none, one that is no
\* token, and the token the client received last, as it is or signed with
\* another key
MissingToken == NoToken
MalformedToken == [NoToken EXCEPT !.sig = "malformed"]
Forged(t) == [t EXCEPT !.sig = "forged"]
ProfileInputs ==
  {MissingToken, MalformedToken}
  \cup (IF last.kind = "token"
          THEN {last.body.access_token, Forged(last.body.access_token)}
          ELSE {})

\* a verification that also asks the user table for the token's subject
JwtVerifyStored(t) == t.sig = Secret /\ now < t.exp /\ FindById(t.sub) # {}

\* a verification that checks the signature and never the clock
JwtVerifyNoExpiry(t) == t.sig = Secret

\* the JWT guard: the signature, then exp against the clock
JwtVerify(t) == t.sig = Secret /\ now < t.exp

\* a guard that checks the signature and not the expiry
GetProfileResponseNoExpiry(t) ==
  IF t.sig # Secret \/ FindById(t.sub) = {}
    THEN [status |-> 401, kind |-> "error",
          body |-> ErrorBody("Unauthorized", "Unauthorized", 401)]
    ELSE [status |-> 200, kind |-> "view",
          body |-> SelectPublic(CHOOSE u \in FindById(t.sub) : TRUE)]

\* verify the token, look the user up by claims.sub, return its public view
GetProfileResponse(t) ==
  IF ~JwtVerify(t)
    THEN [status |-> 401, kind |-> "error",
          body |-> ErrorBody("Unauthorized", "Unauthorized", 401)]
    ELSE IF FindById(t.sub) = {}
      THEN [status |-> 401, kind |-> "error",
            body |-> ErrorBody("User not found", "Unauthorized", 401)]
      ELSE [status |-> 200, kind |-> "view",
            body |-> SelectPublic(CHOOSE u \in FindById(t.sub) : TRUE)]

GetProfile(t) ==
  /\ LET r == GetProfileResponse(t)
     IN last' = Response("getProfile", t, r.status, r.kind, r.body,
                         0, FALSE, NoUser)
  /\ UNCHANGED <<users, reg, now, submitted>>

(* ----------------------- UserService.createUser ----------------------- *)
\* the bodies POST /users is called with: @Body() createUserDto: any, so
\* the ValidationPipe has no class to validate against and passes the body
\* on as it is, with the property no DTO declares when it has one
CreateDtos ==
  {[name |-> Trim(NameOk), email |-> e, password |-> p, age |-> 13,
    extra |-> x] :
     e \in {EmailA, EmailB}, p \in {PwA, PwLongX}, x \in BOOLEAN}

\* prisma.user.create rejects data with a field the model does not have
\* and an email another row has; neither error is caught
CreateOutcome(dto, password) ==
  IF dto.extra \/ UniqueViolation(dto.email)
    THEN /\ last' = Response("createUser", dto, 500, "error",
                             ErrorBody("Internal server error",
                                       "Internal Server Error", 500),
                             0, ~dto.extra, NoUser)
         /\ UNCHANGED <<users, submitted>>
    ELSE LET row == [id |-> NewId, name |-> dto.name, email |-> dto.email,
                     password |-> password, age |-> dto.age]
         IN /\ users' = Append(users, row)
            /\ submitted' = Append(submitted, dto.password)
            /\ last' = Response("createUser", dto, 201, "view",
                                SelectPublic(row), 0, FALSE,
                                SelectPublic(row))

\* createUser of src/user/user.service.ts: hash, then create
CreateUser(dto) ==
  /\ Len(users) + Cardinality(InFlight) < MaxUsers
  /\ \E salt \in Salts :
       CreateOutcome(dto, BcryptHash(dto.password, SaltRounds, salt))
  /\ UNCHANGED <<reg, now>>

\* createUser without a hash: prisma.user.create({ data: createUserDto })
CreateUserNoHash(dto) ==
  /\ Len(users) + Cardinality(InFlight) < MaxUsers
  /\ CreateOutcome(dto, PlainText(dto.password))
  /\ UNCHANGED <<reg, now>>

(* --------------------------- specifications --------------------------- *)
Init ==
  /\ users = <<>>
  /\ reg = [p \in Procs |-> Idle]
  /\ now = 0
  /\ last = NoResponse
  /\ submitted = <<>>

Next ==
  \/ \E p \in Procs : \E body \in RegisterBodies : RegisterCall(p, body)
  \/ \E p \in Procs : RegisterLookup(p)
  \/ \E p \in Procs : RegisterHash(p)
  \/ \E p \in Procs : RegisterCreate(p)
  \/ \E p \in Procs : RegisterSign(p)
  \/ GetUsers
  \/ \E id \in IdInputs : GetUserById(id)
  \/ \E body \in LoginBodies : Login(body)
  \/ \E t \in ProfileInputs : GetProfile(t)
  \/ Tick

\* the register, login, profile and read endpoints
Spec == Init /\ [][Next]_vars

NextCreate ==
  \/ Next
  \/ \E dto \in CreateDtos : CreateUser(dto)
  \/ \E dto \in CreateDtos : CreateUserNoHash(dto)

\* the same with the POST /users endpoint and its createUser
SpecCreate == Init /\ [][NextCreate]_vars

\* one request at a time on the register and login endpoints, with bodies
\* at and around every rule of the two DTOs
NextValidation ==
  \/ \E body \in ValidationBodies : RegisterCall(1, body)
  \/ RegisterLookup(1)
  \/ RegisterHash(1)
  \/ RegisterCreate(1)
  \/ RegisterSign(1)
  \/ \E body \in LoginValidationBodies : Login(body)

SpecValidation == Init /\ [][NextValidation]_vars

NextFaults ==
  \/ Next
  \/ \E p \in Procs : RegisterHashFault(p)
  \/ \E p \in Procs : RegisterSignFault(p)

\* the endpoints of Spec, with bcrypt.hash and jwtService.sign able to fail
SpecFaults == Init /\ [][NextFaults]_vars

(* ------------------------------- claims ------------------------------- *)
Ids == {u.id : u \in Rows}
RegisterValid(body) == RegisterPipe[body].errors = <<>>
LoginValid(body) == LoginPipe[body].errors = <<>>

\* C1: in every reachable state, whatever the interleaving of register
\* calls, no two rows of the user table have the same normalized
\* (lower-cased, trimmed) email.
C1_EmailsUnique ==
  \A i, j \in DOMAIN users :
    i # j => NormalizedEmail(users[i].email) # NormalizedEmail(users[j].email)

\* Two register calls with the same normalized email both passed the
\* lookup; one inserted its row and the other's insert was rejected.
C1_Witness ==
  /\ last.op = "register" /\ last.raced
  /\ \E u \in Rows :
       NormalizedEmail(u.email) = NormalizedEmail(last.req.email.s)

\* C2: a register call whose insert hits the unique constraint, after it
\* passed the lookup, ends with EmailConflict (409) like a sequential
\* duplicate, not with a server fault.
C2_RacedInsertIsConflict ==
  (last.op = "register" /\ last.raced) => last.status = 409

\* C3, as stated: once a row with the request's normalized email exists,
\* every later register call with that email (in any case, with any
\* surrounding white space) fails with EmailConflict, inserts no row and
\* returns no token.
C3_LaterDuplicateIsConflict ==
  (last.op = "register" /\ last.uid # 0) =>
    /\ last.status = 409
    /\ last.user = NoUser
    /\ last.kind # "token"

\* C3, amended: such a call inserts no row and returns no token; it fails
\* with EmailConflict when its body passes validation and with
\* ValidationError when it does not.
C3_LaterDuplicateRejected ==
  (last.op = "register" /\ last.uid # 0) =>
    /\ last.status = (IF RegisterValid(last.req) THEN 409 ELSE 400)
    /\ last.user = NoUser
    /\ last.kind # "token"

\* A register call with the stored email in another case and with
\* surrounding white space has been answered with EmailConflict.
C3_Witness ==
  /\ last.op = "register" /\ last.uid # 0 /\ last.status = 409
  /\ last.req.email.s # users[last.uid].email

\* C4: a successful register call returns exactly { access_token }; the
\* token's sub is the id of the row this call inserted, and its email is
\* that row's stored, normalized email.
C4_RegisterTokenNamesNewRow ==
  (last.op = "register" /\ last.status = 201) =>
    /\ last.kind = "token"
    /\ DOMAIN last.body = {"access_token"}
    /\ last.uid = 0
    /\ \E u \in Rows :
         /\ u.id = last.body.access_token.sub
         /\ u.email = last.body.access_token.email
         /\ u.email = NormalizedEmail(last.req.email.s)
         /\ u.id = last.user.id
         /\ BcryptCompare(last.req.password.s, u.password)

\* A register call has succeeded for an email given in upper case.
C4_Witness ==
  /\ last.op = "register" /\ last.status = 201
  /\ last.req.email.s # NormalizedEmail(last.req.email.s)

\* C5: after any sequence of register and createUser calls the password
\* column of every row holds the bcrypt digest of the submitted password,
\* never the submitted text.
C5_PasswordsStoredHashed ==
  \A i \in DOMAIN users :
    /\ users[i].password.alg = "2b"
    /\ BcryptCompare(submitted[i], users[i].password)
    /\ users[i].password # PlainText(submitted[i])

\* the messages an error response may carry
ErrorMessages ==
  {MsgNameString, MsgNameRequired, MsgNameMin, MsgNameMax, MsgNamePattern,
   MsgEmailInvalid, MsgEmailRequired, MsgPasswordString, MsgPasswordRequired,
   MsgPasswordMin, MsgPasswordMax, MsgPasswordPattern, MsgAgeInt, MsgAgeMin,
   MsgAgeMax, MsgAgeRequired, MsgNotWhitelisted,
   "Cet email est deja utilise", "Internal server error",
   "Invalid credentials", "Unauthorized", "User not found"}

OnlyPublicUserData(view) == DOMAIN view \subseteq {"id", "name", "email", "age"}

\* C6: no response, success or error, carries a password or a password
\* digest: user data is limited to id, name, email and age, a token
\* response is { access_token } with the claims sub, email, iat and exp,
\* and an error carries only fixed messages.
C6_ResponsesHidePasswords ==
  CASE last.kind = "view" -> OnlyPublicUserData(last.body)
    [] last.kind = "list" ->
         \A i \in DOMAIN last.body : OnlyPublicUserData(last.body[i])
    [] last.kind = "token" ->
         /\ DOMAIN last.body = {"access_token"}
         /\ DOMAIN last.body.access_token
              = {"sub", "email", "iat", "exp", "sig"}
    [] last.kind = "error" ->
         /\ DOMAIN last.body = {"message", "error", "statusCode"}
         /\ IF last.status = 400
              THEN \A i \in DOMAIN last.body.message :
                     last.body.message[i] \in ErrorMessages
              ELSE last.body.message \in ErrorMessages
    [] OTHER -> TRUE

\* The list of users has been returned while the table held a row, whose
\* password column holds a digest.
C6_Witness ==
  /\ last.op = "getUsers" /\ Len(last.body) >= 1
  /\ \A i \in DOMAIN users : users[i].password.alg = "2b"

\* C7: in any state of the table, a login with an email no row has and a
\* login with a stored email and a password other than the one registered
\* get the same response: InvalidCredentials, 401, same shape and message.
C7_LoginFailuresIdentical ==
  \A unknown, known \in {b \in LoginBodies : LoginValid(b)} :
    (/\ KnownId(unknown.email) = 0
     /\ KnownId(known.email) # 0
     /\ known.password.s # submitted[KnownId(known.email)]) =>
      /\ LoginOutcome(known) = LoginOutcome(unknown)
      /\ LoginOutcome(known).status = 401
      /\ LoginOutcome(known).body = InvalidCredentials

\* C8: after a register call succeeded with email e and password p, a
\* login whose email normalizes to that of e succeeds, with a token whose
\* sub is the user's id, when its password is exactly p, and fails with
\* InvalidCredentials when its password is any other.
C8_LoginIffRegisteredPassword ==
  (last.op = "login" /\ last.uid # 0 /\ LoginValid(last.req)) =>
    IF last.req.password.s = submitted[last.uid]
      THEN /\ last.status = 200
           /\ last.kind = "token"
           /\ last.body.access_token.sub = last.uid
      ELSE /\ last.status = 401
           /\ last.body = InvalidCredentials

\* C9: GET /users/:id for an id no row has fails with NotFound (404); it
\* never succeeds with an empty or null body.
C9_UnknownIdIsNotFound ==
  (last.op = "getUserById" /\ last.req \notin Ids) =>
    /\ last.status = 404
    /\ last.kind = "error"

\* the bearer tokens a request may carry
TokenUniverse ==
  {MissingToken, MalformedToken}
  \cup [sub : 1..(MaxUsers + 1), email : {EmailA, EmailB}, iat : 0..MaxTime,
        exp : 0..(MaxTime + TokenTTL), sig : {Secret, "forged"}]

\* C10: the profile request returns the public view of the row whose id is
\* the token's sub if and only if the token is present, well formed, signed
\* with the server's key, not expired, and such a row exists; every other
\* request ends in Unauthorized (401).
C10_ProfileIffValidTokenOfUser ==
  \A t \in TokenUniverse :
    IF t.sig = Secret /\ now < t.exp /\ t.sub \in Ids
      THEN /\ GetProfileResponse(t).status = 200
           /\ \E u \in Rows :
                /\ u.id = t.sub
                /\ GetProfileResponse(t).body
                     = [id |-> u.id, name |-> u.name, email |-> u.email,
                        age |-> u.age]
      ELSE /\ GetProfileResponse(t).status = 401
           /\ GetProfileResponse(t).kind = "error"

\* A token this server signed, for a stored user, has been refused after
\* its expiry.
C10_Witness ==
  /\ last.op = "getProfile" /\ last.status = 401
  /\ last.req.sig = Secret /\ last.req.sub \in Ids /\ last.req.exp <= now

\* the tokens the server's key signs, with exp = iat + TokenTTL
IssuedTokens == {t \in TokenUniverse : t.sig = Secret /\ t.exp = t.iat + TokenTTL}

\* C11: a token issued at iat with exp = iat + TokenTTL verifies at every
\* time up to iat + TokenTTL - 1 and is refused at iat + TokenTTL + 1 and at
\* every later time; once its verification has failed, no step of the
\* system makes it succeed again.
C11_TokenExpires ==
  /\ [](/\ last.kind = "token" => last.body.access_token \in IssuedTokens
        /\ \A t \in IssuedTokens :
             /\ (t.iat <= now /\ now <= t.iat + TokenTTL - 1) => JwtVerify(t)
             /\ now >= t.iat + TokenTTL + 1 => ~JwtVerify(t))
  /\ [][\A t \in IssuedTokens : ~JwtVerify(t) => ~JwtVerify(t)']_vars

\* The profile request has been refused for a token this server issued to
\* a stored user, at a time past iat + TokenTTL + 1.
C11_Witness ==
  /\ last.op = "getProfile" /\ last.status = 401
  /\ last.req \in IssuedTokens /\ last.req.sub \in Ids
  /\ now >= last.req.iat + TokenTTL + 1
  /\ ~JwtVerify(last.req)

\* what a token, a key and a time determine by themselves
VerifyAt(t, secret, time) == t.sig = secret /\ time < t.exp

\* C12: the result of verifying a token is a function of the token, the
\* signing key and the clock alone: in every state, whatever the user table
\* holds, it is the value these three determine, and no step that leaves
\* the clock alone (a register step, a read, a login, a profile request)
\* changes it for any token; a correctly signed token stays valid until
\* its exp.
C12_VerifyIgnoresStore ==
  /\ [](\A t \in TokenUniverse : JwtVerify(t) = VerifyAt(t, Secret, now))
  /\ [][now' = now =>
          \A t \in TokenUniverse : JwtVerify(t)' = JwtVerify(t)]_vars

\* The profile request has accepted the token of the first user while the
\* table holds a second row, whose register call has not answered yet.
C12_Witness ==
  /\ last.op = "getProfile" /\ last.status = 200
  /\ last.req.sub = 1 /\ Len(users) = 2
  /\ \E p \in Procs : reg[p].pc = "sign" /\ reg[p].user.id = 2

\* 1 for a rule that is violated
Violated(ok) == IF ok THEN 0 ELSE 1

\* The rules of the field validator a registration input violates, each
\* read on the normalized value (name trimmed, email lower-cased and
\* trimmed, age coerced from a numeric-looking string); an absent value
\* violates every rule of its field.
NameRulesViolated(v) ==
  LET t == ImplicitString(v)
      present == t.k = "str" /\ Trim(t.s) # <<>>
  IN Violated(present)
     + Violated(present /\ Len(Trim(t.s)) \in 2..50)
     + Violated(present /\ \A i \in DOMAIN Trim(t.s) : NameChar(Trim(t.s)[i]))
EmailRulesViolated(v) ==
  LET t == ImplicitString(v)
      present == t.k = "str" /\ t.s # <<>>
  IN Violated(present)
     + Violated(present /\ IsEmail(Str(NormalizedEmail(t.s))))
PasswordRulesViolated(v) ==
  LET t == ImplicitString(v)
      present == t.k = "str" /\ t.s # <<>>
  IN Violated(present)
     + Violated(present /\ Len(t.s) \in 8..128)
     + Violated(/\ present
                /\ \E i \in DOMAIN t.s : IsLower(t.s[i])
                /\ \E i \in DOMAIN t.s : IsUpper(t.s[i])
                /\ \E i \in DOMAIN t.s : t.s[i] \in Digits
                /\ \E i \in DOMAIN t.s : t.s[i] \in PasswordSymbols)
AgeRulesViolated(v) ==
  LET a == IF v = Str(<<>>) THEN Undefined ELSE ImplicitNumber(v)
  IN Violated(a.k # "none")
     + Violated(a.k = "num")
     + Violated(\/ a.k = "num" /\ a.n \in 13..120
                \/ a.k = "real" /\ a.n \in 13..119)
RulesViolated(body) ==
  NameRulesViolated(body.name) + EmailRulesViolated(body.email)
  + PasswordRulesViolated(body.password) + AgeRulesViolated(body.age)
  + Violated(~body.extra)

\* C13: a registration input that violates N rules of the field validator
\* is answered with a ValidationError (400) that carries exactly N
\* messages, one per violated rule, those of all fields together.
C13_OneMessagePerRule ==
  (last.op = "register" /\ RulesViolated(last.req) > 0) =>
    /\ last.status = 400
    /\ Len(last.body.message) = RulesViolated(last.req)

\* C14: a register, login or create-user request whose body has a property
\* that the operation does not declare is rejected with a validation error
\* (400), whatever its declared fields hold; it creates no row and returns
\* no token.
C14_UnknownFieldRejected ==
  (last.op \in {"register", "login", "createUser"} /\ last.req.extra) =>
    /\ last.status = 400
    /\ last.kind = "error"
    /\ last.user = NoUser

PasswordMessages ==
  {MsgPasswordString, MsgPasswordRequired, MsgPasswordMin, MsgPasswordMax,
   MsgPasswordPattern}

\* the response is a ValidationError with a message about the password
PasswordRejected(r) ==
  /\ r.status = 400
  /\ \E i \in DOMAIN r.body.message : r.body.message[i] \in PasswordMessages

\* C15: registration validation rejects a password if and only if its
\* length is outside [8,128] or it lacks a lower-case letter, an upper-case
\* letter, a digit or a symbol of @$!%*?&; nothing else about the password
\* (its first character, the other characters in it) has it rejected.
C15_PasswordAcceptedIffConforming ==
  last.op = "register" =>
    (PasswordRejected(last) <=> PasswordRulesViolated(last.req.password) > 0)

AgeMessages == {MsgAgeInt, MsgAgeMin, MsgAgeMax, MsgAgeRequired}

\* the response is a ValidationError with a message about the age
AgeRejected(r) ==
  /\ r.status = 400
  /\ \E i \in DOMAIN r.body.message : r.body.message[i] \in AgeMessages

\* C16: registration validation accepts an age if and only if, after a
\* numeric-looking string has been coerced to its number, it is an integer
\* of 13..120: 13, 120 and "25" are accepted, 12, 121, 25.5 and "abc" are
\* rejected; every row has an age in 13..120.
C16_AgeAcceptedIffIntegerInRange ==
  /\ last.op = "register" =>
       /\ AgeRejected(last) <=> AgeRulesViolated(last.req.age) > 0
       /\ last.req.age \in {Num(13), Num(120), Str(<<"2", "5">>)} =>
            ~AgeRejected(last)
       /\ last.req.age \in {Num(12), Num(121), Real(25, <<"5">>),
                            Str(<<"a", "b", "c">>)} => AgeRejected(last)
  /\ \A i \in DOMAIN users : users[i].age \in 13..120

\* A register call with the age "25", a string, has succeeded and its row
\* has the number 25.
C16_Witness ==
  /\ last.op = "register" /\ last.status = 201
  /\ last.req.age = Str(<<"2", "5">>)
  /\ last.user.age = 25
  /\ \E u \in Rows : u.id = last.user.id /\ u.age = 25

\* C17: the email of every row equals its own lower-cased, trimmed value and
\* the name of every row is trimmed, whatever the request had; a register
\* call validates, looks up and inserts the normalized values, and the
\* token it returns carries the normalized email.
C17_StoredEmailNormalized ==
  /\ \A u \in Rows :
       u.email = NormalizedEmail(u.email) /\ u.name = Trim(u.name)
  /\ \A p \in InFlight :
       /\ reg[p].dto.email = NormalizedEmail(reg[p].body.email.s)
       /\ reg[p].dto.name = Trim(reg[p].body.name.s)
       /\ IsEmail(Str(reg[p].dto.email))
       /\ reg[p].pc = "sign" =>
            /\ reg[p].user.email = reg[p].dto.email
            /\ reg[p].user.name = reg[p].dto.name
            /\ \E u \in Rows : SelectPublic(u) = reg[p].user
  /\ (last.op = "register" /\ last.status = 201) =>
       /\ last.user.email = NormalizedEmail(last.req.email.s)
       /\ last.user.name = Trim(last.req.name.s)
       /\ last.body.access_token.email = NormalizedEmail(last.req.email.s)
  /\ (last.op = "register" /\ last.status = 400
      /\ last.req.email.k = "str") =>
       ((\E i \in DOMAIN last.body.message :
           last.body.message[i] = MsgEmailInvalid)
        <=> ~IsEmail(Str(NormalizedEmail(last.req.email.s))))

\* A register call whose email had upper-case letters and surrounding
\* spaces, and whose name had a leading space, has succeeded.
C17_Witness ==
  /\ last.op = "register" /\ last.status = 201
  /\ ToLowerCase(last.req.email.s) # last.req.email.s
  /\ Trim(last.req.email.s) # last.req.email.s
  /\ Trim(last.req.name.s) # last.req.name.s
  /\ \E u \in Rows : SelectPublic(u) = last.user

\* C18: login validation rejects a password only when it is absent, not a
\* string, or empty: a non-empty password that breaks the length or
\* complexity rules of registration gets no validation message, and with a
\* valid email such a login ends in InvalidCredentials (401) or in success,
\* never in a ValidationError.
C18_LoginPasswordShapeOnly ==
  last.op = "login" =>
    /\ PasswordRejected(last) =>
         last.req.password.k # "str" \/ last.req.password.s = <<>>
    /\ (/\ last.req.password.k = "str" /\ last.req.password.s # <<>>
        /\ PasswordRulesViolated(last.req.password) > 0
        /\ last.req.email.k = "str"
        /\ IsEmail(Str(NormalizedEmail(last.req.email.s)))
        /\ ~last.req.extra) =>
         \/ last.status = 401 /\ last.body = InvalidCredentials
         \/ last.status = 200 /\ last.kind = "token"

\* A login with a registered email and the five-letter password "wrong"
\* has been answered with InvalidCredentials.
C18_Witness ==
  /\ last.op = "login" /\ last.uid # 0
  /\ last.req.password = Str(PwWeak)
  /\ last.status = 401 /\ last.body = InvalidCredentials

\* the PublicUserView of a row
ViewOf(u) == [id |-> u.id, name |-> u.name, email |-> u.email, age |-> u.age]

\* the list holds the view of every row once, and nothing else
OneViewPerRow(list, rows) ==
  /\ Len(list) = Len(rows)
  /\ \A i \in DOMAIN rows : list[i] = ViewOf(rows[i])
  /\ \A i, j \in DOMAIN list : i # j => list[i].id # list[j].id

\* a step that sends a response and changes nothing else: a read, a login
\* or a profile request
OnlyResponds ==
  /\ users' = users
  /\ now' = now
  /\ \A p \in Procs : reg'[p].pc = reg[p].pc

\* C19: the list of users holds exactly one view for each row the table has
\* when it is read, none missing, none twice, none of a row that is not
\* stored, and the request for a stored id returns the view of the row
\* with that id; so do the responses the two requests send.
C19_ListReturnsEveryRowOnce ==
  /\ [](/\ OneViewPerRow(GetUsersResult, users)
        /\ \A u \in Rows :
             /\ GetUserByIdResponse(u.id).status = 200
             /\ GetUserByIdResponse(u.id).kind = "view"
             /\ GetUserByIdResponse(u.id).body = ViewOf(u))
  /\ [][(OnlyResponds /\ last'.op = "getUsers") =>
          /\ last'.status = 200
          /\ OneViewPerRow(last'.body, users)]_vars
  /\ [][(OnlyResponds /\ last'.op = "getUserById" /\ last'.req \in Ids) =>
          \E u \in Rows : u.id = last'.req /\ last'.body = ViewOf(u)]_vars

\* The list has been read while the table held two rows.
C19_Witness ==
  /\ last.op = "getUsers" /\ Len(last.body) = 2
  /\ OneViewPerRow(last.body, users)
  /\ last.body[1] # last.body[2]

\* the moves of one register call, as pairs of positions
RegisterOrder ==
  {<<"idle", "lookup">>, <<"lookup", "hash">>, <<"lookup", "idle">>,
   <<"hash", "create">>, <<"create", "sign">>, <<"create", "idle">>,
   <<"sign", "idle">>}

\* what a call has done at each position: nothing before the hash, the hash
\* and no row before the insert, its row in the table before the token
RegisterProgress(p) ==
  CASE reg[p].pc \in {"idle", "lookup", "hash"} ->
         reg[p].hashed = NoHash /\ reg[p].user = NoUser
    [] reg[p].pc = "create" ->
         reg[p].hashed.alg = "2b" /\ reg[p].user = NoUser
    [] OTHER ->
         /\ reg[p].hashed.alg = "2b"
         /\ \E u \in Rows :
              SelectPublic(u) = reg[p].user /\ u.password = reg[p].hashed

\* one step of the register call p, in the order of the code
RegisterStep(p) ==
  /\ reg'[p].pc # reg[p].pc => <<reg[p].pc, reg'[p].pc>> \in RegisterOrder
  /\ (reg[p].pc = "lookup" /\ reg'[p].pc = "hash") =>
       FindByEmail(reg[p].dto.email) = {}
  /\ (reg[p].pc = "lookup" /\ reg'[p].pc = "idle") =>
       /\ last'.op = "register" /\ last'.status = 409
       /\ last'.user = NoUser /\ last'.kind = "error"
       /\ users' = users
  /\ reg'[p].hashed # reg[p].hashed =>
       \/ reg[p].pc = "hash" /\ reg'[p].pc = "create"
       \/ reg'[p].pc = "idle"
  /\ (reg[p].pc = "sign" /\ reg'[p].pc = "idle") =>
       /\ last'.op = "register" /\ last'.kind = "token"
       /\ \E u \in Rows : u.id = last'.body.access_token.sub
                          /\ SelectPublic(u) = reg[p].user
       /\ users' = users

\* C20: a register call validates, looks the normalized email up, hashes,
\* inserts and issues the token, in this order: a row is inserted only by a
\* call whose lookup found no row and that has hashed, the token is issued
\* only after the call's row is in the table, and a ValidationError or an
\* EmailConflict ends the call with no hash, no row and no token.
C20_RegisterStepsInOrder ==
  /\ [](/\ \A p \in Procs : RegisterProgress(p)
        /\ (last.op = "register" /\ last.status \in {400, 409}) =>
             last.user = NoUser /\ last.kind = "error")
  /\ [][/\ \A p \in Procs : RegisterStep(p)
        /\ users' # users =>
             \E p \in Procs :
               /\ reg[p].pc = "create" /\ reg'[p].pc = "sign"
               /\ users' = Append(users, RegisterRow(p))
        /\ (OnlyResponds /\ last'.op = "register") =>
             last'.status = 400 /\ last'.kind = "error"]_vars

\* A call has been ended by EmailConflict and another call has inserted its
\* row and not yet issued its token.
C20_Witness ==
  /\ last.op = "register" /\ last.status = 409 /\ last.user = NoUser
  /\ \E p \in Procs :
       /\ reg[p].pc = "sign"
       /\ \E u \in Rows : SelectPublic(u) = reg[p].user

\* where every register call stands
Positions == [p \in Procs |-> reg[p].pc]

\* the table after the step: the rows it had, unchanged and in place, and
\* at most one more, inserted by the create step of a register call
RowsKept ==
  /\ Len(users') >= Len(users)
  /\ SubSeq(users', 1, Len(users)) = users
  /\ users' # users =>
       /\ Len(users') = Len(users) + 1
       /\ \E p \in Procs : reg[p].pc = "create" /\ reg'[p].pc = "sign"

\* C21: no step changes a field of a row or removes a row; the table only
\* grows, by one row at a time, inserted by a register call; a register
\* call that has inserted its row ends with success, and a successful
\* register call has added exactly one row.
C21_RowsOnlyAddedBySuccessfulRegister ==
  /\ [][RowsKept]_users
  /\ [][\A p \in Procs :
          (reg[p].pc = "sign" /\ reg'[p].pc = "idle") =>
            last'.status = 201 /\ last'.kind = "token"]_Positions
  /\ []((last.op = "register" /\ last.status = 201) =>
          Cardinality({i \in DOMAIN users :
                         SelectPublic(users[i]) = last.user}) = 1)

\* the token's sub is the id of a stored row and its email that row's email
TokenNamesRow(t) ==
  \E i \in DOMAIN users : users[i].id = t.sub /\ users[i].email = t.email

\* C22: the token a register or login call answers with names a stored row
\* (sub = its id, email = its email) in the state of the answer and for as
\* long as the answer stands, and a token that names a stored row names one
\* after every step: the row it was issued for never leaves the table.
C22_TokenSubjectStaysStored ==
  /\ []((last.op \in {"register", "login"} /\ last.kind = "token") =>
          TokenNamesRow(last.body.access_token))
  /\ [][\A t \in IssuedTokens : TokenNamesRow(t) => TokenNamesRow(t)']_users

\* A login has answered with a token for the first user, the clock has moved
\* since and the table has a second row.
C22_Witness ==
  /\ last.op = "login" /\ last.kind = "token"
  /\ last.body.access_token.sub = 1
  /\ last.body.access_token.iat < now
  /\ Len(users) = 2

\* C23: when a register call has ended in an error (a validation error, an
\* email conflict, or a fault of hashing, inserting or signing), the table
\* holds no row that this call inserted.
C23_FailedRegisterLeavesNoRow ==
  (last.op = "register" /\ last.kind = "error") =>
    \A i \in DOMAIN users : SelectPublic(users[i]) # last.user

\* C24: register calls with different normalized emails do not make each
\* other fail. Under every interleaving a call with a valid body fails only
\* when a row inserted by another call has its normalized email; a call
\* that succeeds has added exactly one row, the one with its email and the
\* id it was answered for; and no two rows have the same id.
C24_DistinctEmailsDoNotInterfere ==
  /\ (last.op = "register" /\ RegisterValid(last.req)
        /\ last.status # 201) =>
       \E u \in Rows :
         /\ NormalizedEmail(u.email) = NormalizedEmail(last.req.email.s)
         /\ SelectPublic(u) # last.user
  /\ (last.op = "register" /\ last.status = 201) =>
       /\ Cardinality({i \in DOMAIN users :
            users[i].email = NormalizedEmail(last.req.email.s)}) = 1
       /\ \A i \in DOMAIN users :
            users[i].email = NormalizedEmail(last.req.email.s) =>
              users[i].id = last.user.id
  /\ \A i, j \in DOMAIN users : i # j => users[i].id # users[j].id

\* Two register calls with different emails ran at once: the one that
\* inserted second has been answered with success while the one that
\* inserted first has not answered yet.
C24_Witness ==
  /\ last.op = "register" /\ last.status = 201 /\ last.user.id = 2
  /\ \E p \in Procs :
       /\ reg[p].pc = "sign" /\ reg[p].user.id = 1
       /\ NormalizedEmail(reg[p].user.email)
            # NormalizedEmail(last.req.email.s)

====
